---- MODULE Spec2Model ----
(***************************************************************************)
(* Model of the MCP client orchestrator (class MCPClient): the server      *)
(* registry (mcpServers), the per-server HTTP clients (clients), the tool  *)
(* catalog (tools), the state file (.mcp-servers.json), the launch         *)
(* sequence with its grace periods, child-process exit handling, cleanup,  *)
(* catalog refresh and tool-call routing.                                  *)
(*                                                                         *)
(* Strings are sequences of tokens (characters, or a fixed literal kept as *)
(* one token).  A JavaScript Map is a sequence of entries in insertion     *)
(* order, keyed by the entry's name field.                                 *)
(***************************************************************************)
EXTENDS Integers, Sequences, FiniteSets, TLC

\* ------------------------------------------------------------------ bounds
MaxPorts == 2       \* distinct outcomes of the random port draw
MaxRefresh == 2     \* refreshTools calls that may be suspended at once (SpecOverlap)

\* --------------------------------------------------------- program constants
PortBase == 8000
PortSpan == 1000

ClientTimeout == 10000   \* timeout (ms) of every axios client
DOT == "."

\* ------------------------------------------------------------ input domains
NoConfig == [present |-> FALSE, servers |-> <<>>]

Configs ==
    {NoConfig} \cup
    { [present |-> TRUE, servers |-> s] :
        s \in { <<>>, << <<"b">> >>, << <<"a">>, <<"b">> >> } }

\* 8000 + Math.floor(Math.random() * 1000), for the draws the model follows
Ports == { PortBase + r : r \in { d \in 0 .. (MaxPorts - 1) : d < PortSpan } }

CallIds == {"1"}      \* ids callers use

ReqIds == {"1", "2"}  \* ids a server may put in its answer

ReqNames ==
    { <<"b", DOT, "x">>, <<"b", DOT, "x", DOT, "y">>,
      <<"g", DOT, "x">>, <<"g", DOT, DOT, "x">>,
      <<"x">>, <<DOT, "x">>, <<"b", DOT>> }

ReqArgs == { <<"{}">> }

ToolX == [name |-> <<"x">>, description |-> <<"d">>, parameters |-> "px"]
ToolXY == [name |-> <<"x", DOT, "y">>, description |-> <<"e">>, parameters |-> "pxy"]

\* lists a server may answer GET /tools with: nothing makes a server list a
\* name once only
ToolLists == { <<ToolX>>, <<ToolX, ToolXY>>, <<ToolX, ToolX>> }

\* ------------------------------------------------------------------- state
VARIABLES
    phase,       \* "none": no orchestrator instance yet; "up": constructed;
                 \* "crashed": ended by an uncaught exception
    cfg,         \* config.mcpServers of the current instance
    mcpServers,  \* this.mcpServers
    clients,     \* this.clients
    tools,       \* this.tools
    file,        \* content of the state file
    procs,       \* child processes spawned by this instance, pid = index
    ssPc,        \* startServers: "idle", "grace" (suspended at the await), "done"
    ssIdx,       \* startServers: index in cfg of the server whose grace period runs
    rf,          \* refreshTools calls, by slot
    call,        \* the executeToolCall call being observed
    registered,  \* history: names ever put in mcpServers by this instance
    lastOp       \* history: the operation that ran last, with what it did

vars == << phase, cfg, mcpServers, clients, tools, file, procs,
           ssPc, ssIdx, rf, call, registered, lastOp >>

\* ------------------------------------------------------- Map as a sequence
Keys(m) == { m[i].name : i \in DOMAIN m }

Has(m, k) == \E i \in DOMAIN m : m[i].name = k

Get(m, k) == m[CHOOSE i \in DOMAIN m : m[i].name = k]

MapSet(m, e) ==
    IF Has(m, e.name)
    THEN [i \in DOMAIN m |-> IF m[i].name = e.name THEN e ELSE m[i]]
    ELSE Append(m, e)

MapDelete(m, k) == SelectSeq(m, LAMBDA e : e.name # k)

\* ----------------------------------------------------------------- strings
DigitChars == << "0", "1", "2", "3", "4", "5", "6", "7", "8", "9" >>

RECURSIVE NumToString(_)
NumToString(n) ==
    IF n < 10 THEN << DigitChars[n + 1] >>
    ELSE NumToString(n \div 10) \o << DigitChars[(n % 10) + 1] >>

ServerUrl(port) == << "http://localhost:" >> \o NumToString(port)

\* SpawnArgs with the port option put in front of the configured arguments
SpawnArgsInFront(args, port) == << <<"--port">>, NumToString(port) >> \o args

SpawnArgs(args, port) == args \o << <<"--port">>, NumToString(port) >>

ConfigArgs(name) == << <<"serve">>, name >>

\* String.prototype.split(".") : every piece between separators
RECURSIVE SplitAll(_)
SplitAll(s) ==
    IF \A i \in DOMAIN s : s[i] # DOT THEN << s >>
    ELSE LET i == CHOOSE j \in DOMAIN s :
                     s[j] = DOT /\ \A k \in 1 .. (j - 1) : s[k] # DOT
         IN << SubSeq(s, 1, i - 1) >> \o SplitAll(SubSeq(s, i + 1, Len(s)))

\* split(".", limit): the pieces of the whole split, cut to the first `limit`
SplitLimit(s, limit) ==
    LET all == SplitAll(s)
    IN SubSeq(all, 1, IF Len(all) < limit THEN Len(all) ELSE limit)

\* -------------------------------------------------------------- state file
AbsentFile == [kind |-> "absent", ents |-> <<>>]

MalformedFile == [kind |-> "malformed", ents |-> <<>>]

JsonFile(ents) == [kind |-> "json", ents |-> ents]

Uuid(pid) == << "uuid", pid >>

\* an entry {name: null}: valid JSON, but no object to read id and url from
NullInfo(name) == [name |-> name, id |-> <<>>, url |-> <<>>]

IsNullInfo(e) == e.id = <<>> /\ e.url = <<>>

\* a file that parses, with a well-formed entry followed by a null one
PartlyValidFile ==
    JsonFile(<< [name |-> <<"b">>, id |-> Uuid(0), url |-> ServerUrl(PortBase)],
                NullInfo(<<"a">>) >>)

\* files a previous instance, or the user, may have left behind
InitFiles ==
    { AbsentFile, MalformedFile,
      JsonFile(<< [name |-> <<"b">>, id |-> Uuid(0), url |-> ServerUrl(PortBase)] >>),
      PartlyValidFile }

\* saveServerState: JSON.stringify of {name: {id, url}} for every registry entry
SaveServerState(ms) ==
    JsonFile([i \in DOMAIN ms |->
                 [name |-> ms[i].name, id |-> ms[i].id, url |-> ms[i].url]])

DiscoveredRecord(e) == [name |-> e.name, id |-> e.id, url |-> e.url, process |-> 0]

\* ClientFor with axios' default timeout: 0, no timeout
ClientForNoTimeout(name, url) == [name |-> name, url |-> url, timeout |-> 0]

\* axios.create({baseURL: url, timeout: 10000})
ClientFor(name, url) == [name |-> name, url |-> url, timeout |-> ClientTimeout]

\* LoadEntries without the `!this.mcpServers.has(name)` test
RECURSIVE LoadEntriesOverwrite(_, _, _)
LoadEntriesOverwrite(st, ents, i) ==
    IF i > Len(ents) THEN st
    ELSE LET e == ents[i]
         IN IF IsNullInfo(e)
            THEN st
            ELSE LoadEntriesOverwrite([ms |-> MapSet(st.ms, DiscoveredRecord(e)),
                                       cl |-> MapSet(st.cl, ClientFor(e.name, e.url))],
                                      ents, i + 1)

\* the for loop of loadServerState over Object.entries(state), from entry i on;
\* reading info.id of a null entry throws, which ends the loop in the catch
\* block with the entries before it already registered
RECURSIVE LoadEntries(_, _, _)
LoadEntries(st, ents, i) ==
    IF i > Len(ents) THEN st
    ELSE LET e == ents[i]
         IN IF Has(st.ms, e.name)
            THEN LoadEntries(st, ents, i + 1)
            ELSE IF IsNullInfo(e)
            THEN st
            ELSE LoadEntries([ms |-> Append(st.ms, DiscoveredRecord(e)),
                              cl |-> MapSet(st.cl, ClientFor(e.name, e.url))],
                             ents, i + 1)

\* loadServerState: absent file, or a read/parse error, leaves the maps alone
LoadServerState(ms, cl, f) ==
    IF f.kind = "json" THEN LoadEntries([ms |-> ms, cl |-> cl], f.ents, 1)
    ELSE [ms |-> ms, cl |-> cl]

\* ------------------------------------------------------------ startServers
LaunchRecord(name, pid, port) ==
    [name |-> name, id |-> Uuid(pid), url |-> ServerUrl(port), process |-> pid]

ChildProcess(name, port) ==
    [name |-> name, args |-> SpawnArgs(ConfigArgs(name), port), port |-> port,
     st |-> "running", sig |-> FALSE]

\* One synchronous stretch of the for loop of startServers, entered at server i
\* of the configuration c: the spawns of servers i .. k-1 throw (caught, next
\* iteration); server k is spawned on `port` and the loop suspends at its grace
\* period; with k past the end the loop is over and the state is saved.
StartServersFrom(c, i, k, port, st) ==
    IF k <= Len(c)
    THEN LET pid == Len(st.pr) + 1
             rec == LaunchRecord(c[k], pid, port)
         IN [ms |-> MapSet(st.ms, rec),
             cl |-> MapSet(st.cl, ClientFor(c[k], rec.url)),
             pr |-> Append(st.pr, ChildProcess(c[k], port)),
             f |-> st.f, pc |-> "grace", idx |-> k]
    ELSE [ms |-> st.ms, cl |-> st.cl, pr |-> st.pr,
          f |-> SaveServerState(st.ms), pc |-> "done", idx |-> Len(c)]

\* ExitHandler clearing the whole registry
ExitHandlerClearAll(ms, name) == <<>>

\* process.on("exit"): this.mcpServers.delete(name)
ExitHandler(ms, name) == MapDelete(ms, name)

\* ----------------------------------------------------------------- cleanup
\* the for loop of cleanup over this.mcpServers.entries(), from entry i on;
\* `throws` are the servers whose process.kill() throws
RECURSIVE Sweep(_, _, _)
Sweep(ms, throws, i) ==
    IF i > Len(ms) THEN <<>>
    ELSE (IF ms[i].process # 0
          THEN << [ev |-> IF ms[i].name \in throws THEN "killthrow" ELSE "kill",
                   name |-> ms[i].name] >>
          ELSE <<>>)
         \o Sweep(ms, throws, i + 1)

\* ClearStateFile that resets only a file it could parse
ClearStateFileIfJson(f) == IF f.kind = "json" THEN JsonFile(<<>>) ELSE f

\* if (existsSync(file)) writeFileSync(file, "{}")
ClearStateFile(f) == IF f.kind = "absent" THEN f ELSE JsonFile(<<>>)

ResetEvent == [ev |-> "reset", name |-> <<>>]

\* the sweep without the try/catch around kill(): it stops at the first throw
RECURSIVE SweepNoCatch(_, _, _)
SweepNoCatch(ms, throws, i) ==
    IF i > Len(ms) THEN <<>>
    ELSE IF ms[i].process = 0 THEN SweepNoCatch(ms, throws, i + 1)
    ELSE IF ms[i].name \in throws THEN << [ev |-> "killthrow", name |-> ms[i].name] >>
    ELSE << [ev |-> "kill", name |-> ms[i].name] >> \o SweepNoCatch(ms, throws, i + 1)

\* CleanupRun without the try/catch around kill(): a throw leaves cleanup
CleanupRunNoCatch(ms, f, throws) ==
    LET log == SweepNoCatch(ms, throws, 1)
        threw == \E i \in DOMAIN log : log[i].ev = "killthrow"
    IN [log |-> IF threw THEN log ELSE log \o << [ev |-> "reset", name |-> <<>>] >>,
        file |-> IF threw THEN f ELSE (IF f.kind = "absent" THEN f ELSE JsonFile(<<>>)),
        err |-> threw]

\* cleanup(): the sweep (every kill in its own try/catch), then the file reset
CleanupRun(ms, f, throws) ==
    [log |-> Sweep(ms, throws, 1) \o << ResetEvent >>,
     file |-> ClearStateFile(f),
     err |-> FALSE]

\* processes signalled by a cleanup log
Signalled(log) == { log[i].name : i \in { j \in DOMAIN log : log[j].ev = "kill" } }

\* ------------------------------------------------------------ refreshTools
\* NamespaceTools with the tool name left unqualified
NamespaceToolsNoPrefix(name, serverTools) ==
    [i \in DOMAIN serverTools |->
        [name |-> serverTools[i].name,
         description |-> << "[" >> \o name \o << "] " >> \o serverTools[i].description,
         parameters |-> serverTools[i].parameters]]

NamespaceTools(name, serverTools) ==
    [i \in DOMAIN serverTools |->
        [name |-> name \o << DOT >> \o serverTools[i].name,
         description |-> << "[" >> \o name \o << "] " >> \o serverTools[i].description,
         parameters |-> serverTools[i].parameters]]

IdleRefresh ==
    [pc |-> "idle", idx |-> 0, acc |-> <<>>, ans |-> <<>>, polled |-> <<>>,
     early |-> FALSE, threw |-> FALSE]

\* the GET /tools issued to client i: its name, and whether the registry holds
\* that name when the request goes out
Poll(ms, cl, i) == [name |-> cl[i].name, inReg |-> Has(ms, cl[i].name)]

\* refreshTools up to its first await: the size guard, then GET /tools to the
\* first client
RefreshBegin(ms, cl) ==
    IF Len(ms) = 0
    THEN [IdleRefresh EXCEPT !.pc = "done", !.early = TRUE]
    ELSE IF Len(cl) = 0
         THEN [IdleRefresh EXCEPT !.pc = "done"]
         ELSE [IdleRefresh EXCEPT !.pc = "await", !.idx = 1,
                                  !.polled = << Poll(ms, cl, 1) >>]

\* GET /tools answers: a tool list, or a failure (network error, no list)
ToolsResponses ==
    { [ok |-> TRUE, tools |-> l] : l \in ToolLists } \cup { [ok |-> FALSE, tools |-> <<>>] }

\* RefreshResume without the try/catch around the request: a failed GET /tools
\* leaves refreshTools by the exception
RefreshResumeNoCatch(r, ms, cl, resp) ==
    LET name == cl[r.idx].name
        acc == IF resp.ok THEN r.acc \o NamespaceTools(name, resp.tools) ELSE r.acc
        ans == Append(r.ans, [name |-> name, ok |-> resp.ok, tools |-> resp.tools])
    IN IF ~resp.ok
       THEN [r EXCEPT !.pc = "done", !.ans = ans, !.threw = TRUE]
       ELSE IF r.idx < Len(cl)
       THEN [r EXCEPT !.idx = r.idx + 1, !.acc = acc, !.ans = ans,
                      !.polled = Append(r.polled, Poll(ms, cl, r.idx + 1))]
       ELSE [r EXCEPT !.pc = "done", !.acc = acc, !.ans = ans]

\* refreshTools resumed by the answer of client idx: push the namespaced tools
\* (nothing on failure), then the next client of the live iterator, or the end
RefreshResume(r, ms, cl, resp) ==
    LET name == cl[r.idx].name
        acc == IF resp.ok THEN r.acc \o NamespaceTools(name, resp.tools) ELSE r.acc
        ans == Append(r.ans, [name |-> name, ok |-> resp.ok, tools |-> resp.tools])
    IN IF r.idx < Len(cl)
       THEN [r EXCEPT !.idx = r.idx + 1, !.acc = acc, !.ans = ans,
                      !.polled = Append(r.polled, Poll(ms, cl, r.idx + 1))]
       ELSE [r EXCEPT !.pc = "done", !.acc = acc, !.ans = ans]

\* --------------------------------------------------------- executeToolCall
NoError == <<>>

Failure(id, error) == [shape |-> "obj", id |-> id, result |-> <<>>, error |-> error]

DisabledError == << "MCP client is disabled or no servers are running" >>

InvalidFormatError(name) ==
    << "Invalid tool name format: " >> \o name \o << ". Expected format: server.toolName" >>

NotFoundError(serverName) == << "MCP server not found: " >> \o serverName

TransportErrorOf(msg) == << "Error executing MCP tool: " >> \o msg

NullBody == [shape |-> "null", id |-> "", result |-> <<>>, error |-> NoError]

Requests == [id : CallIds, name : ReqNames, arguments : ReqArgs]

\* ExecuteStart with the name check reduced to `!serverName`
ExecuteStartNoToolCheck(req, ms, cl) ==
    IF Len(ms) = 0
    THEN [kind |-> "return", result |-> Failure(req.id, DisabledError), sent |-> <<>>]
    ELSE LET parts == SplitLimit(req.name, 2)
             serverName == parts[1]
             toolName == IF Len(parts) >= 2 THEN parts[2] ELSE <<>>
         IN IF serverName = <<>>
            THEN [kind |-> "return",
                  result |-> Failure(req.id, InvalidFormatError(req.name)),
                  sent |-> <<>>]
            ELSE IF ~Has(cl, serverName)
            THEN [kind |-> "return",
                  result |-> Failure(req.id, NotFoundError(serverName)),
                  sent |-> <<>>]
            ELSE [kind |-> "send",
                  result |-> NullBody,
                  sent |-> << [url |-> Get(cl, serverName).url, path |-> "/execute",
                               body |-> [id |-> req.id, name |-> toolName,
                                         arguments |-> req.arguments]] >>]

\* executeToolCall up to its await: the guards, the name parse, the client
\* lookup, and the POST /execute it sends (this.enabled is never set to false)
ExecuteStart(req, ms, cl) ==
    IF Len(ms) = 0
    THEN [kind |-> "return", result |-> Failure(req.id, DisabledError), sent |-> <<>>]
    ELSE LET parts == SplitLimit(req.name, 2)
             serverName == parts[1]
             toolName == IF Len(parts) >= 2 THEN parts[2] ELSE <<>>
         IN IF serverName = <<>> \/ toolName = <<>>
            THEN [kind |-> "return",
                  result |-> Failure(req.id, InvalidFormatError(req.name)),
                  sent |-> <<>>]
            ELSE IF ~Has(cl, serverName)
            THEN [kind |-> "return",
                  result |-> Failure(req.id, NotFoundError(serverName)),
                  sent |-> <<>>]
            ELSE [kind |-> "send",
                  result |-> NullBody,
                  sent |-> << [url |-> Get(cl, serverName).url, path |-> "/execute",
                               body |-> [id |-> req.id, name |-> toolName,
                                         arguments |-> req.arguments]] >>]

\* the message of the error axios rejects a request with when the client's
\* timeout has expired
TimeoutMessage(t) == << "timeout of " >> \o NumToString(t) \o << "ms exceeded" >>

TimeoutResponse(t) == [ok |-> FALSE, body |-> NullBody, msg |-> TimeoutMessage(t)]

\* POST /execute answers: a body (with any id, or null), or a network failure
ExecResponses ==
    { [ok |-> TRUE, body |-> [shape |-> "obj", id |-> i, result |-> <<"out">>,
                              error |-> NoError], msg |-> <<>>] : i \in ReqIds }
    \cup { [ok |-> TRUE, body |-> NullBody, msg |-> <<>>],
           [ok |-> FALSE, body |-> NullBody, msg |-> << "connect ECONNREFUSED" >>] }

\* ExecuteFinish without the catch block: a failed POST returns nothing
ExecuteFinishNoCatch(req, resp, logging) ==
    IF ~resp.ok THEN NullBody
    ELSE IF logging /\ resp.body.shape = "null"
         THEN NullBody
         ELSE resp.body

\* executeToolCall resumed by the answer: response.data verbatim; the log line
\* dereferences response.data, so a null body throws there when logging is on
ExecuteFinish(req, resp, logging) ==
    IF ~resp.ok THEN Failure(req.id, TransportErrorOf(resp.msg))
    ELSE IF logging /\ resp.body.shape = "null"
         THEN Failure(req.id, TransportErrorOf(<< "Cannot read properties of null" >>))
         ELSE resp.body

IdleCall ==
    [pc |-> "idle", req |-> [id |-> "1", name |-> <<>>, arguments |-> <<>>],
     sent |-> <<>>, resp |-> [ok |-> FALSE, body |-> NullBody, msg |-> <<>>],
     result |-> NullBody, reg |-> <<>>, known |-> {}]

\* ------------------------------------------------------------- history
OtherOp == [op |-> "other", name |-> <<>>, n |-> 0, log |-> <<>>, err |-> FALSE]

OpOf(op) == [OtherOp EXCEPT !.op = op]

\* no returned call or refresh is waiting to be read by its caller (a return
\* value is read in the state in which it was returned)
NoReturnPending ==
    /\ call.pc # "done"
    /\ \A s \in DOMAIN rf : rf[s].pc # "done"

\* no executeToolCall and no refreshTools is under way.  executeToolCall
\* writes no field, refreshTools writes only this.tools, cleanup writes only the
\* state file and signals children: the three are followed one at a time, each
\* interleaved with the launch sequence and with child exits.
CallerIdle ==
    /\ call.pc = "idle"
    /\ \A s \in DOMAIN rf : rf[s].pc = "idle"

\* Committed with this.tools written as the answers come in, not once at the end
CommittedEachAnswer(r, old) == IF ~r.early /\ ~r.threw THEN r.acc ELSE old

\* this.tools = allTools at the end of a refresh that did not return early
Committed(r, old) == IF r.pc = "done" /\ ~r.early /\ ~r.threw THEN r.acc ELSE old

\* ----------------------------------------------------------------- initial
Init ==
    /\ phase = "none"
    /\ cfg = NoConfig
    /\ mcpServers = <<>>
    /\ clients = <<>>
    /\ tools = <<>>
    /\ file \in InitFiles
    /\ procs = <<>>
    /\ ssPc = "idle"
    /\ ssIdx = 0
    /\ rf = << IdleRefresh >>
    /\ call = IdleCall
    /\ registered = {}
    /\ lastOp = OtherOp

\* ----------------------------------------------------------------- actions
\* new MCPClient(config): startServers up to its first await (or to its end),
\* then loadServerState, then refreshTools up to its first await
Construct ==
    /\ phase = "none"
    /\ \E c \in Configs, port \in Ports :
         \E k \in 1 .. (Len(c.servers) + 1) :
           LET st0 == [ms |-> <<>>, cl |-> <<>>, pr |-> <<>>, f |-> file]
               seg == IF c.present
                      THEN StartServersFrom(c.servers, 1, k, port, st0)
                      ELSE [ms |-> <<>>, cl |-> <<>>, pr |-> <<>>, f |-> file,
                            pc |-> "idle", idx |-> 0]
               ld == LoadServerState(seg.ms, seg.cl, seg.f)
               r == RefreshBegin(ld.ms, ld.cl)
           IN /\ cfg' = c
              /\ mcpServers' = ld.ms
              /\ clients' = ld.cl
              /\ procs' = seg.pr
              /\ file' = seg.f
              /\ ssPc' = seg.pc
              /\ ssIdx' = seg.idx
              /\ rf' = [s \in DOMAIN rf |-> IF s = 1 THEN r ELSE IdleRefresh]
              /\ tools' = Committed(r, <<>>)
              /\ registered' = Keys(ld.ms)
    /\ phase' = "up"
    /\ call' = IdleCall
    /\ lastOp' = OtherOp

\* the grace period of server ssIdx is over: startServers resumes its loop
GraceElapsed ==
    /\ phase = "up"
    /\ ssPc = "grace"
    /\ NoReturnPending
    /\ \E port \in Ports :
         \E k \in (ssIdx + 1) .. (Len(cfg.servers) + 1) :
           LET seg == StartServersFrom(cfg.servers, ssIdx + 1, k, port,
                         [ms |-> mcpServers, cl |-> clients, pr |-> procs, f |-> file])
           IN /\ mcpServers' = seg.ms
              /\ clients' = seg.cl
              /\ procs' = seg.pr
              /\ file' = seg.f
              /\ ssPc' = seg.pc
              /\ ssIdx' = seg.idx
              /\ registered' = registered \cup Keys(seg.ms)
    /\ lastOp' = OtherOp
    /\ UNCHANGED << phase, cfg, tools, rf, call >>

\* The spawn of the child started last failed (no such command, no permission):
\* the handle that spawn() returned emits "error" during the grace period.
\* startServers registers no "error" listener, so the event is thrown as an
\* uncaught exception: the host process ends, or goes on if it handles uncaught
\* exceptions.  Nothing in the orchestrator reacts to it.
SpawnError ==
    /\ phase = "up"
    /\ NoReturnPending
    /\ ssPc = "grace"
    /\ Len(procs) > 0
    /\ procs[Len(procs)].st = "running"
    /\ procs[Len(procs)].name = cfg.servers[ssIdx]
    /\ procs' = [procs EXCEPT ![Len(procs)].st = "failed"]
    /\ \E crash \in BOOLEAN : phase' = IF crash THEN "crashed" ELSE "up"
    /\ lastOp' = OtherOp
    /\ UNCHANGED << cfg, mcpServers, clients, tools, file, ssPc, ssIdx, rf, call,
                    registered >>

\* a child process of this instance exits: its "exit" handler runs ("exit" may
\* or may not follow an "error")
Exit ==
    /\ phase = "up"
    /\ NoReturnPending
    /\ \E p \in DOMAIN procs :
         /\ procs[p].st # "exited"
         /\ procs' = [procs EXCEPT ![p].st = "exited"]
         /\ mcpServers' = ExitHandler(mcpServers, procs[p].name)
         /\ lastOp' = OtherOp
    /\ UNCHANGED << phase, cfg, clients, tools, file, ssPc, ssIdx, rf, call,
                    registered >>

\* cleanup()
Cleanup ==
    /\ phase = "up"
    /\ CallerIdle
    /\ \E throws \in SUBSET { mcpServers[i].name :
                               i \in { j \in DOMAIN mcpServers : mcpServers[j].process # 0 } } :
         LET r == CleanupRun(mcpServers, file, throws)
         IN /\ file' = r.file
            /\ procs' = [p \in DOMAIN procs |->
                           IF /\ procs[p].name \in Signalled(r.log)
                              /\ Get(mcpServers, procs[p].name).process = p
                           THEN [procs[p] EXCEPT !.sig = TRUE]
                           ELSE procs[p]]
            /\ lastOp' = [OpOf("cleanup") EXCEPT
                            !.n = IF lastOp.op = "cleanup" THEN 2 ELSE 1,
                            !.log = r.log, !.err = r.err]
    /\ UNCHANGED << phase, cfg, mcpServers, clients, tools, ssPc, ssIdx, rf,
                    call, registered >>

\* a caller calls refreshTools()
RefreshStart ==
    /\ phase = "up"
    /\ NoReturnPending
    /\ call.pc = "idle"
    /\ \E s \in DOMAIN rf :
         /\ rf[s].pc = "idle"
         /\ \A t \in 1 .. (s - 1) : rf[t].pc # "idle"
         /\ LET r == RefreshBegin(mcpServers, clients)
            IN /\ rf' = [rf EXCEPT ![s] = r]
               /\ tools' = Committed(r, tools)
    /\ lastOp' = OtherOp
    /\ UNCHANGED << phase, cfg, mcpServers, clients, file, procs, ssPc, ssIdx,
                    call, registered >>

\* the GET /tools a refresh awaits is answered, or fails
RefreshResponse ==
    /\ phase = "up"
    /\ NoReturnPending
    /\ \E s \in DOMAIN rf, resp \in ToolsResponses :
         /\ rf[s].pc = "await"
         /\ LET r == RefreshResume(rf[s], mcpServers, clients, resp)
            IN /\ rf' = [rf EXCEPT ![s] = r]
               /\ tools' = Committed(r, tools)
    /\ lastOp' = OtherOp
    /\ UNCHANGED << phase, cfg, mcpServers, clients, file, procs, ssPc, ssIdx,
                    call, registered >>

\* the GET /tools that refresh s awaits is not answered within the timeout of
\* its client: axios rejects it (a timeout of 0 never expires)
RefreshTimeoutOf(s) ==
    /\ phase = "up"
    /\ NoReturnPending
    /\ rf[s].pc = "await"
    /\ clients[rf[s].idx].timeout > 0
    /\ LET r == RefreshResume(rf[s], mcpServers, clients, [ok |-> FALSE, tools |-> <<>>])
       IN /\ rf' = [rf EXCEPT ![s] = r]
          /\ tools' = Committed(r, tools)
    /\ lastOp' = OtherOp
    /\ UNCHANGED << phase, cfg, mcpServers, clients, file, procs, ssPc, ssIdx,
                    call, registered >>

RefreshTimeout == \E s \in DOMAIN rf : RefreshTimeoutOf(s)

\* the caller of a finished refreshTools has its return value
RefreshReturn ==
    /\ \E s \in DOMAIN rf :
         /\ rf[s].pc = "done"
         /\ rf' = [rf EXCEPT ![s] = IdleRefresh]
    /\ lastOp' = OtherOp
    /\ UNCHANGED << phase, cfg, mcpServers, clients, tools, file, procs, ssPc,
                    ssIdx, call, registered >>

\* a caller calls executeToolCall(req)
CallStart ==
    /\ phase = "up"
    /\ CallerIdle
    /\ \E req \in Requests :
         LET e == ExecuteStart(req, mcpServers, clients)
         IN call' = [pc |-> IF e.kind = "send" THEN "await" ELSE "done",
                     req |-> req, sent |-> e.sent, resp |-> IdleCall.resp,
                     result |-> e.result, reg |-> mcpServers, known |-> registered]
    /\ lastOp' = OtherOp
    /\ UNCHANGED << phase, cfg, mcpServers, clients, tools, file, procs, ssPc,
                    ssIdx, rf, registered >>

\* the POST /execute the call awaits is answered, or fails
CallResponse ==
    /\ phase = "up"
    /\ NoReturnPending
    /\ call.pc = "await"
    /\ \E resp \in ExecResponses, logging \in BOOLEAN :
         call' = [call EXCEPT !.pc = "done", !.resp = resp,
                              !.result = ExecuteFinish(call.req, resp, logging)]
    /\ lastOp' = OtherOp
    /\ UNCHANGED << phase, cfg, mcpServers, clients, tools, file, procs, ssPc,
                    ssIdx, rf, registered >>

\* the POST /execute the call awaits is not answered within the timeout of its
\* client: axios rejects it
CallTimeout ==
    /\ phase = "up"
    /\ NoReturnPending
    /\ call.pc = "await"
    /\ LET client == Get(clients, SplitLimit(call.req.name, 2)[1])
       IN /\ client.timeout > 0
          /\ \E logging \in BOOLEAN :
               call' = [call EXCEPT
                          !.pc = "done", !.resp = TimeoutResponse(client.timeout),
                          !.result = ExecuteFinish(call.req,
                                                   TimeoutResponse(client.timeout),
                                                   logging)]
    /\ lastOp' = OtherOp
    /\ UNCHANGED << phase, cfg, mcpServers, clients, tools, file, procs, ssPc,
                    ssIdx, rf, registered >>

\* the caller of a finished executeToolCall has its return value
CallReturn ==
    /\ call.pc = "done"
    /\ call' = IdleCall
    /\ lastOp' = OtherOp
    /\ UNCHANGED << phase, cfg, mcpServers, clients, tools, file, procs, ssPc,
                    ssIdx, rf, registered >>

Next ==
    \/ Construct
    \/ GraceElapsed
    \/ SpawnError
    \/ Exit
    \/ Cleanup
    \/ RefreshStart
    \/ RefreshResponse
    \/ RefreshTimeout
    \/ RefreshReturn
    \/ CallStart
    \/ CallResponse
    \/ CallTimeout
    \/ CallReturn

Spec == Init /\ [][Next]_vars

\* Several refreshTools calls suspended at once, interleaved with child exits.
\* Followed from an instance whose launch sequence is over: both configured
\* servers spawned, the state saved, and the refresh of the constructor returned
\* with every request failed, so the catalog is still the initial one.
Launched ==
    LET c == << <<"a">>, <<"b">> >>
        sa == StartServersFrom(c, 1, 1, PortBase, [ms |-> <<>>, cl |-> <<>>,
                                                   pr |-> <<>>, f |-> AbsentFile])
        sb == StartServersFrom(c, 2, 2, PortBase + 1, [ms |-> sa.ms, cl |-> sa.cl,
                                                       pr |-> sa.pr, f |-> sa.f])
    IN StartServersFrom(c, 3, 3, PortBase, [ms |-> sb.ms, cl |-> sb.cl, pr |-> sb.pr,
                                            f |-> sb.f])

InitOverlap ==
    /\ phase = "up"
    /\ cfg = [present |-> TRUE, servers |-> << <<"a">>, <<"b">> >>]
    /\ mcpServers = Launched.ms
    /\ clients = Launched.cl
    /\ tools = <<>>
    /\ file = Launched.f
    /\ procs = Launched.pr
    /\ ssPc = Launched.pc
    /\ ssIdx = Launched.idx
    /\ rf = [s \in 1 .. MaxRefresh |-> IdleRefresh]
    /\ call = IdleCall
    /\ registered = Keys(Launched.ms)
    /\ lastOp = OtherOp

NextOverlap ==
    \/ Exit
    \/ RefreshStart
    \/ RefreshResponse
    \/ RefreshTimeout
    \/ RefreshReturn

SpecOverlap == InitOverlap /\ [][NextOverlap]_vars

\* The same instance with one refreshTools or one executeToolCall under way
\* at a time, and time passing: the timer of the pending request expires at
\* last if the request is not answered.  No server is bound to answer.
InitLive ==
    /\ phase = "up"
    /\ cfg = [present |-> TRUE, servers |-> << <<"a">>, <<"b">> >>]
    /\ mcpServers = Launched.ms
    /\ clients = Launched.cl
    /\ tools = <<>>
    /\ file = Launched.f
    /\ procs = Launched.pr
    /\ ssPc = Launched.pc
    /\ ssIdx = Launched.idx
    /\ rf = << IdleRefresh >>
    /\ call = IdleCall
    /\ registered = Keys(Launched.ms)
    /\ lastOp = OtherOp

NextLive ==
    \/ Exit
    \/ RefreshStart
    \/ RefreshResponse
    \/ RefreshTimeout
    \/ RefreshReturn
    \/ CallStart
    \/ CallResponse
    \/ CallTimeout
    \/ CallReturn

SpecLive ==
    /\ InitLive
    /\ [][NextLive]_vars
    /\ WF_vars(CallTimeout)
    /\ WF_vars(RefreshTimeout)

\* =================================================================== claims
\* the qualified name as the specification parses it: on the first separator
HasSeparator(name) == \E i \in DOMAIN name : name[i] = DOT

FirstSeparator(name) ==
    CHOOSE i \in DOMAIN name : name[i] = DOT /\ \A k \in 1 .. (i - 1) : name[k] # DOT

ServerPart(name) ==
    IF HasSeparator(name) THEN SubSeq(name, 1, FirstSeparator(name) - 1) ELSE name

LocalPart(name) ==
    IF HasSeparator(name) THEN SubSeq(name, FirstSeparator(name) + 1, Len(name)) ELSE <<>>

MalformedName(name) ==
    ~HasSeparator(name) \/ ServerPart(name) = <<>> \/ LocalPart(name) = <<>>

\* the call has returned after a POST /execute that the server answered with a
\* body echoing the request's id
AnsweredCall ==
    /\ call.pc = "done"
    /\ call.sent # <<>>
    /\ call.resp.ok
    /\ call.resp.body.shape = "obj"
    /\ call.resp.body.id = call.req.id

\* C1 (as claimed): a call of "S.t" to a registered server S that answers sends
\* exactly one POST /execute to S's endpoint carrying (id, t, arguments) and
\* returns the server's body, with the request's id and the server's output.
C1_RoutingAsClaimed ==
    (/\ AnsweredCall
     /\ ~MalformedName(call.req.name)
     /\ Has(call.reg, ServerPart(call.req.name)))
    => /\ call.sent =
            << [url |-> Get(call.reg, ServerPart(call.req.name)).url,
                path |-> "/execute",
                body |-> [id |-> call.req.id, name |-> LocalPart(call.req.name),
                          arguments |-> call.req.arguments]] >>
       /\ call.result = call.resp.body
       /\ call.result.id = call.req.id

\* C2 (as claimed): a malformed name gets the "Invalid tool name format"
\* failure echoing the id, and no network call, in every registry state.
C2_MalformedAsClaimed ==
    (call.pc = "done" /\ MalformedName(call.req.name))
    => /\ call.result = Failure(call.req.id, InvalidFormatError(call.req.name))
       /\ call.sent = <<>>

\* C2 (amended): a malformed name never causes a network call and always gets a
\* failure echoing the id: the "Invalid tool name format" failure when the
\* registry is not empty, the "disabled or no servers" failure when it is empty.
C2_Malformed ==
    (call.pc = "done" /\ MalformedName(call.req.name))
    => /\ call.sent = <<>>
       /\ call.result =
            IF Len(call.reg) = 0
            THEN Failure(call.req.id, DisabledError)
            ELSE Failure(call.req.id, InvalidFormatError(call.req.name))

C2_Witness ==
    /\ call.pc = "done"
    /\ call.req.name = << "b", DOT >>
    /\ Len(call.reg) > 0
    /\ call.result = Failure(call.req.id, InvalidFormatError(call.req.name))

\* C3 (as claimed): a well-formed name "S.t" whose server S was never registered
\* gets the "MCP server not found: S" failure echoing the id, and no network
\* call, in every registry state.
C3_UnknownServerAsClaimed ==
    (/\ call.pc = "done"
     /\ ~MalformedName(call.req.name)
     /\ ServerPart(call.req.name) \notin call.known)
    => /\ call.result =
            Failure(call.req.id, NotFoundError(ServerPart(call.req.name)))
       /\ call.sent = <<>>

RECURSIVE AnsweredTools(_, _)
AnsweredTools(ans, i) ==
    IF i > Len(ans) THEN 0
    ELSE (IF ans[i].ok THEN Len(ans[i].tools) ELSE 0) + AnsweredTools(ans, i + 1)

Qualified(server, tool) ==
    [name |-> server \o << DOT >> \o tool.name,
     description |-> << "[" >> \o server \o << "] " >> \o tool.description,
     parameters |-> tool.parameters]

InSeq(x, q) == \E i \in DOMAIN q : q[i] = x

\* C4: a finished refresh yields one descriptor per tool answered (none dropped
\* or merged), and for two distinct servers A, B that both answered a tool with
\* local name x it holds "A.x" and "B.x" as two different names, each with the
\* description prefixed "[A] " / "[B] " and the parameters unchanged.
C4_Namespacing ==
    \A s \in DOMAIN rf :
      (rf[s].pc = "done" /\ ~rf[s].early)
      => LET r == rf[s]
         IN /\ tools = r.acc
            /\ Len(r.acc) = AnsweredTools(r.ans, 1)
            /\ \A i, j \in DOMAIN r.ans :
                 (i # j /\ r.ans[i].ok /\ r.ans[j].ok)
                 => \A m \in DOMAIN r.ans[i].tools, n \in DOMAIN r.ans[j].tools :
                      (r.ans[i].tools[m].name = r.ans[j].tools[n].name)
                      => LET da == Qualified(r.ans[i].name, r.ans[i].tools[m])
                             db == Qualified(r.ans[j].name, r.ans[j].tools[n])
                         IN /\ da.name # db.name
                            /\ InSeq(da, r.acc)
                            /\ InSeq(db, r.acc)

C4_Witness ==
    \E s \in DOMAIN rf :
      /\ rf[s].pc = "done"
      /\ Len(rf[s].ans) = 2
      /\ rf[s].ans[1].ok /\ rf[s].ans[1].tools = << ToolX >>
      /\ rf[s].ans[2].ok /\ rf[s].ans[2].tools = << ToolX >>
      /\ rf[s].polled[1].inReg /\ rf[s].polled[2].inReg
      /\ tools = << Qualified(<<"a">>, ToolX), Qualified(<<"b">>, ToolX) >>

\* a child process exits in this step
Exits(p) ==
    /\ p \in DOMAIN procs /\ p \in DOMAIN procs'
    /\ procs[p].st # "exited" /\ procs'[p].st = "exited"

\* C5: the exit of an owned child removes exactly that server's record (the
\* other records and their order unchanged) and leaves a call in flight alone;
\* the name stays absent afterwards; and a call answered by its server returns
\* that answer whatever other server has exited meanwhile.
C5_ExitPruning ==
    /\ [][\A p \in DOMAIN procs :
            Exits(p)
            => /\ ~Has(mcpServers', procs[p].name)
               /\ mcpServers' = SelectSeq(mcpServers, LAMBDA e : e.name # procs[p].name)
               /\ clients' = clients
               /\ call' = call]_vars
    /\ [](\A p \in DOMAIN procs :
            procs[p].st = "exited" => ~Has(mcpServers, procs[p].name))
    /\ [](AnsweredCall => call.result = call.resp.body)

C5_Witness ==
    \E p \in DOMAIN procs :
      /\ procs[p].st = "exited"
      /\ Has(call.reg, procs[p].name)
      /\ AnsweredCall
      /\ call.result = call.resp.body
      /\ ServerPart(call.req.name) # procs[p].name
      /\ Has(mcpServers, ServerPart(call.req.name))
      /\ Len(mcpServers) = Len(call.reg) - 1

\* a state file that is absent, does not parse, or parses to a wrong shape
BadStateFile(f) ==
    f.kind # "json" \/ \E i \in DOMAIN f.ents : IsNullInfo(f.ents[i])

\* the step is the construction of an orchestrator
Constructs == phase = "none" /\ phase' = "up"

\* C6 (as claimed): the save at the end of the launch sequence writes exactly
\* the (name, id, url) of the registry's records; and an orchestrator
\* constructed with no configured servers over a saved file ends with every
\* saved (name, url) in its registry as a discovered record (process = null).
C6_RoundTripAsClaimed ==
    /\ [][(ssPc # "done" /\ ssPc' = "done")
          => file' = JsonFile([i \in DOMAIN mcpServers' |->
                                 [name |-> mcpServers'[i].name,
                                  id |-> mcpServers'[i].id,
                                  url |-> mcpServers'[i].url]])]_vars
    /\ [][(Constructs /\ cfg'.servers = <<>> /\ ~BadStateFile(file))
          => \A i \in DOMAIN file.ents :
               /\ Has(mcpServers', file.ents[i].name)
               /\ Get(mcpServers', file.ents[i].name).url = file.ents[i].url
               /\ Get(mcpServers', file.ents[i].name).process = 0]_vars

EmptyRecordSet(f) == f.kind = "absent" \/ (f.kind = "json" /\ f.ents = <<>>)

\* C7: a cleanup() that directly follows a cleanup() raises no error and leaves
\* the persisted state empty ({} or no file).
C7_CleanupTwice ==
    (lastOp.op = "cleanup" /\ lastOp.n = 2)
    => (~lastOp.err /\ EmptyRecordSet(file))

C7_Witness ==
    /\ lastOp.op = "cleanup" /\ lastOp.n = 2
    /\ \E i \in DOMAIN lastOp.log : lastOp.log[i].ev = "kill"
    /\ file = JsonFile(<<>>)

Owned(ms) == { ms[i].name : i \in { j \in DOMAIN ms : ms[j].process # 0 } }

KillAttempts(log) == SelectSeq(log, LAMBDA e : e.ev \in {"kill", "killthrow"})

\* C8: cleanup() attempts kill() once on every record with a process handle and
\* on no discovered record; a kill() that throws does not stop the sweep (every
\* other owned process is signalled); and the state-file reset comes last,
\* after the sweep.
C8_BestEffort ==
    (lastOp.op = "cleanup")
    => LET log == lastOp.log
           kills == KillAttempts(log)
       IN /\ ~lastOp.err
          /\ { kills[i].name : i \in DOMAIN kills } = Owned(mcpServers)
          /\ Len(kills) = Cardinality(Owned(mcpServers))
          /\ Len(log) = Len(kills) + 1
          /\ log[Len(log)] = ResetEvent
          /\ \A i \in DOMAIN kills :
               kills[i].ev = "kill"
               => procs[Get(mcpServers, kills[i].name).process].sig
          /\ \A p \in DOMAIN procs :
               procs[p].sig
               => procs[p].st = "exited" \/ procs[p].name \in Owned(mcpServers)
          /\ EmptyRecordSet(file)

C8_Witness ==
    /\ lastOp.op = "cleanup"
    /\ Len(lastOp.log) = 3
    /\ lastOp.log[1].ev = "killthrow"
    /\ lastOp.log[2].ev = "kill"
    /\ lastOp.log[3] = ResetEvent
    /\ file = JsonFile(<<>>)

\* the grace period of child p has elapsed
GraceOver(p) == ssPc = "done" \/ cfg.servers[ssIdx] # procs[p].name

\* the registry holds for child p the record its launch made: the address
\* http://localhost:<port> of the port appended as "--port" <port> to the
\* configured arguments, and the child as process handle
LaunchRecorded(p) ==
    LET a == procs[p].args
        n == procs[p].name
    IN /\ Len(a) = Len(ConfigArgs(n)) + 2
       /\ SubSeq(a, 1, Len(a) - 2) = ConfigArgs(n)
       /\ a[Len(a) - 1] = << "--port" >>
       /\ Has(mcpServers, n)
       /\ Get(mcpServers, n).url = << "http://localhost:" >> \o a[Len(a)]
       /\ Get(mcpServers, n).process = p

\* C9 (as claimed): every launched server has its launch record in the registry
\* once its grace period has elapsed.
C9_LaunchAsClaimed ==
    \A p \in DOMAIN procs : GraceOver(p) => LaunchRecorded(p)

\* C9 (amended): once the grace period of a launched server has elapsed, the
\* registry holds its launch record if the child has not exited, and no record
\* for that name if it has (the exit handler has pruned it).
C9_Launch ==
    \A p \in DOMAIN procs :
      GraceOver(p)
      => IF procs[p].st = "exited"
         THEN ~Has(mcpServers, procs[p].name)
         ELSE LaunchRecorded(p)

C9_Witness ==
    \E p \in DOMAIN procs :
      /\ GraceOver(p)
      /\ procs[p].st = "running"
      /\ LaunchRecorded(p)
      /\ Len(procs) = 2

\* C10 (as claimed): two servers launched by one instance never get the same
\* port, so no two owned records share an address.
C10_DistinctPortsAsClaimed ==
    /\ \A p, q \in DOMAIN procs : p # q => procs[p].port # procs[q].port
    /\ \A i, j \in DOMAIN mcpServers :
         (i # j /\ mcpServers[i].process # 0 /\ mcpServers[j].process # 0)
         => mcpServers[i].url # mcpServers[j].url

\* the catalog that the answers of a refresh amount to: for every answered
\* list, in the order of the answers, its tools qualified by the server's name
RECURSIVE QualifiedList(_, _, _)
QualifiedList(server, serverTools, i) ==
    IF i > Len(serverTools) THEN <<>>
    ELSE << Qualified(server, serverTools[i]) >> \o QualifiedList(server, serverTools, i + 1)

RECURSIVE CatalogOf(_, _)
CatalogOf(ans, i) ==
    IF i > Len(ans) THEN <<>>
    ELSE (IF ans[i].ok THEN QualifiedList(ans[i].name, ans[i].tools, 1) ELSE <<>>)
         \o CatalogOf(ans, i + 1)

\* the value a finished refreshTools call returned
Returned(r) == IF r.early THEN <<>> ELSE r.acc

\* C11: a refresh that got past the size guard ends without throwing, has
\* polled every client (so every registered server) whatever requests failed,
\* and returns the descriptors of all answered lists: a failed request
\* contributes none and takes none of the others away.
C11_FailureIsolation ==
    \A s \in DOMAIN rf :
      (rf[s].pc = "done" /\ ~rf[s].early)
      => /\ ~rf[s].threw
         /\ Len(rf[s].ans) = Len(clients)
         /\ \A i \in DOMAIN clients : rf[s].ans[i].name = clients[i].name
         /\ \A i \in DOMAIN mcpServers :
              \E j \in DOMAIN rf[s].ans : rf[s].ans[j].name = mcpServers[i].name
         /\ rf[s].acc = CatalogOf(rf[s].ans, 1)

C11_Witness ==
    \E s \in DOMAIN rf :
      /\ rf[s].pc = "done"
      /\ Len(rf[s].ans) = 2
      /\ ~rf[s].ans[1].ok
      /\ rf[s].ans[2].ok
      /\ rf[s].acc = QualifiedList(rf[s].ans[2].name, << ToolX, ToolXY >>, 1)
      /\ ~rf[s].threw

\* C12 (as claimed): after a refreshTools call has completed, the catalog that
\* getTools() reads is exactly what that call returned, in every registry state.
C12_ReplaceAsClaimed ==
    \A s \in DOMAIN rf : rf[s].pc = "done" => tools = Returned(rf[s])

\* C13: the catalog changes only in the step in which one refresh completes,
\* and then to the complete result of that refresh (every client polled, the
\* answered lists qualified); a suspended refresh has written nothing, however
\* many are suspended, so the catalog is the initial empty one or the result of
\* a single completed refresh.
C13_AtomicSwap ==
    /\ [](phase = "none" => tools = <<>>)
    /\ [][ tools' # tools
           => \E s \in DOMAIN rf :
                /\ rf[s].pc = "await"
                /\ rf'[s].pc = "done"
                /\ Len(rf'[s].ans) = Len(clients)
                /\ tools' = CatalogOf(rf'[s].ans, 1) ]_vars

C13_Witness ==
    /\ rf[1].pc = "await"
    /\ rf[2].pc = "await"
    /\ tools # <<>>
    /\ rf[2].acc # <<>>
    /\ rf[2].acc # tools
    /\ rf[1].acc # <<>>
    /\ rf[1].acc # rf[2].acc

\* C14 (as claimed): when the body a server answers carries an id other than
\* the request's, executeToolCall returns a failure of its own that echoes the
\* request id, not the server's body.
C14_ProtocolViolationAsClaimed ==
    (/\ call.pc = "done"
     /\ call.sent # <<>>
     /\ call.resp.ok
     /\ call.resp.body.shape = "obj"
     /\ call.resp.body.id # call.req.id)
    => /\ call.result # call.resp.body
       /\ call.result.id = call.req.id
       /\ call.result.result = <<>>
       /\ call.result.error # NoError

\* C15: when the POST /execute fails (network error, timeout), the call
\* returns the failure {id of the request, result "", error "Error executing
\* MCP tool: <cause>"}, and that one POST is the only request it sent.
C15_TransportError ==
    (call.pc = "done" /\ call.sent # <<>> /\ ~call.resp.ok)
    => /\ call.result = [shape |-> "obj", id |-> call.req.id, result |-> <<>>,
                         error |-> << "Error executing MCP tool: " >> \o call.resp.msg]
       /\ call.resp.msg # <<>>
       /\ Len(call.sent) = 1
       /\ call.sent[1].path = "/execute"

C15_Witness ==
    /\ call.pc = "done"
    /\ call.sent # <<>>
    /\ ~call.resp.ok
    /\ call.result.error = << "Error executing MCP tool: ", "connect ECONNREFUSED" >>

\* C16 (as claimed): whatever the server answers and whether logging is on or
\* off, a returned call is an object {id, result, error?}; a null body gives a
\* failure result that echoes the request id.
C16_WellFormedAsClaimed ==
    call.pc = "done"
    => /\ call.result.shape = "obj"
       /\ (call.sent # <<>> /\ call.resp.ok /\ call.resp.body.shape = "null")
          => (call.result.id = call.req.id /\ call.result.error # NoError)

\* C17 (as claimed): a construction over an absent, unparsable or wrongly
\* shaped state file (one with only some valid entries included) registers no
\* entry of that file: the registry and the client map hold the launched
\* servers only, as before the load.
C17_LoadRobustAsClaimed ==
    [][ (phase = "none" /\ phase' = "up" /\ BadStateFile(file))
        => /\ \A i \in DOMAIN mcpServers' : mcpServers'[i].process # 0
           /\ \A i \in DOMAIN clients' : Has(mcpServers', clients'[i].name) ]_vars

\* C18 (as claimed): a server whose spawn failed, with the failure reported by
\* the child-process handle after spawn() returned, has no record in the
\* registry and no entry in the persisted state.
C18_LaunchFailureAsClaimed ==
    \A p \in DOMAIN procs :
      procs[p].st = "failed"
      => /\ ~(Has(mcpServers, procs[p].name)
              /\ Get(mcpServers, procs[p].name).process = p)
         /\ ~(file.kind = "json"
              /\ \E i \in DOMAIN file.ents :
                   file.ents[i].name = procs[p].name /\ file.ents[i].id = Uuid(p))

\* C19 (as claimed): in every catalog, no two descriptors have the same
\* qualified name, whatever lists the servers answered.
C19_UniqueNamesAsClaimed ==
    \A i, j \in DOMAIN tools : i # j => tools[i].name # tools[j].name

\* C20 (as claimed): a call "S.t" made when S was registered once but is in the
\* registry no more (its child exited, the record was pruned), while other
\* servers are still registered, sends no request and returns the "MCP server
\* not found: S" failure echoing the id.
C20_AfterExitAsClaimed ==
    (/\ call.pc \in {"await", "done"}
     /\ ~MalformedName(call.req.name)
     /\ ServerPart(call.req.name) \in call.known
     /\ ~Has(call.reg, ServerPart(call.req.name))
     /\ Len(call.reg) > 0)
    => /\ call.sent = <<>>
       /\ call.pc = "done"
       /\ call.result =
            Failure(call.req.id, NotFoundError(ServerPart(call.req.name)))

\* C21 (as claimed): every server a refresh sends GET /tools to is in the
\* registry when the request is sent; a server whose record the exit handler
\* removed is polled no more.
C21_PollsRegistryAsClaimed ==
    \A s \in DOMAIN rf :
      \A i \in DOMAIN rf[s].polled : rf[s].polled[i].inReg

\* C22 (as claimed): a call whose name is the name of a catalog descriptor
\* "S.t", made while the registry is not empty, goes to the client of S and
\* carries the local name t, the part after the first separator, unchanged.
C22_NameRoundTripAsClaimed ==
    \A i \in DOMAIN tools :
      (call.pc \in {"await", "done"} /\ call.req.name = tools[i].name
       /\ Len(call.reg) > 0)
      => /\ Len(call.sent) = 1
         /\ call.sent[1].url = Get(clients, ServerPart(tools[i].name)).url
         /\ call.sent[1].body.name = LocalPart(tools[i].name)

\* the persisted state records server n: the state file a new orchestrator is
\* constructed over has an entry n, or the registry holds n as a record
\* rejoined from that file
Recorded(n) ==
    \/ /\ phase = "none"
       /\ ~BadStateFile(file)
       /\ \E i \in DOMAIN file.ents : file.ents[i].name = n
    \/ /\ Has(mcpServers, n)
       /\ Get(mcpServers, n).process = 0

\* C23 (as claimed): no step of an orchestrator spawns a process for a server
\* that the persisted state it was constructed over records.
C23_NoDuplicateLaunchAsClaimed ==
    [][ \A p \in DOMAIN procs' :
          p \notin DOMAIN procs => ~Recorded(procs'[p].name) ]_vars

\* child p is a child of this instance that has not exited, and the registry
\* and the client map hold what its launch put there: the owned record with the
\* address of the port drawn for it, and a client for that same address
Overlaid(p) ==
    /\ LaunchRecorded(p)
    /\ Get(mcpServers, procs[p].name).url = ServerUrl(procs[p].port)
    /\ Has(clients, procs[p].name)
    /\ Get(clients, procs[p].name).url = ServerUrl(procs[p].port)

\* C24: the load in the constructor leaves the records of the servers launched
\* before it as they are and adds discovered records (process null) only for
\* other names of the file; and at every moment from its launch on, so also
\* when the launch sequence is over, a child that has not exited has its owned
\* record and its client on the newly drawn address, whether the name was
\* loaded from the state file before the launch or skipped by the load after.
C24_Overlay ==
    /\ [][ Constructs
           => /\ \A p \in DOMAIN procs' :
                   /\ Has(mcpServers', procs'[p].name)
                   /\ Get(mcpServers', procs'[p].name) =
                        LaunchRecord(procs'[p].name, p, procs'[p].port)
              /\ \A i \in DOMAIN mcpServers' :
                   mcpServers'[i].process = 0
                   => /\ \E j \in DOMAIN file'.ents :
                           mcpServers'[i] = DiscoveredRecord(file'.ents[j])
                      /\ \A p \in DOMAIN procs' :
                           procs'[p].name # mcpServers'[i].name ]_vars
    /\ [](\A p \in DOMAIN procs : procs[p].st # "exited" => Overlaid(p))

\* server b, recorded in the state file on port PortBase, was loaded as a
\* discovered record while a was in its grace period and then launched on
\* another port
C24_Witness ==
    /\ Len(procs) = 2
    /\ procs[2].name = <<"b">>
    /\ procs[2].st = "running"
    /\ procs[2].port # PortBase
    /\ file.kind = "json"
    /\ \E j \in DOMAIN file.ents :
         file.ents[j].name = <<"b">> /\ file.ents[j].url = ServerUrl(PortBase)
    /\ Overlaid(2)
    /\ Get(mcpServers, <<"b">>).process = 2

\* C25 (as claimed): the step that follows a cleanup() called while
\* startServers is suspended in a grace period spawns no child and leaves the
\* persisted state the empty record set.
C25_CleanupFinalAsClaimed ==
    [][ (lastOp.op = "cleanup" /\ ssPc = "grace")
        => /\ Len(procs') = Len(procs)
           /\ EmptyRecordSet(file') ]_vars

\* C27 (as claimed): the refresh that the constructor starts sends GET /tools
\* to a launched server only after that server's grace period has elapsed.
C27_CatalogAfterConstructionAsClaimed ==
    [][ Constructs
        => \A i \in DOMAIN rf'[1].polled :
             ~(ssPc' = "grace" /\ cfg'.servers[ssIdx'] = rf'[1].polled[i].name) ]_vars

\* C26: with the timeout every client is created with, a call that waits for
\* its POST /execute returns at last and a refresh that waits for a GET /tools
\* completes at last, also when no server ever answers; a call whose request
\* timed out returns the failure result that echoes the id and names the
\* timeout, and a refresh counts nothing for the servers that did not answer.
C26_BoundedResponse ==
    /\ (call.pc = "await") ~> (call.pc = "done")
    /\ (rf[1].pc = "await") ~> (rf[1].pc = "done")
    /\ []((call.pc = "done" /\ call.sent # <<>> /\ ~call.resp.ok)
          => /\ call.result.id = call.req.id
             /\ call.result.result = <<>>
             /\ call.result.error = << "Error executing MCP tool: " >> \o call.resp.msg)
    /\ [](\A s \in DOMAIN rf :
            (rf[s].pc = "done" /\ ~rf[s].early)
            => rf[s].acc = CatalogOf(rf[s].ans, 1))

C26_Witness ==
    /\ call.pc = "done"
    /\ call.sent # <<>>
    /\ call.resp.msg = << "timeout of ", "1", "0", "0", "0", "0", "ms exceeded" >>
    /\ call.result.error = << "Error executing MCP tool: " >> \o call.resp.msg
    /\ call.result.id = call.req.id

====
